---- MODULE Spec2Model ----
(***************************************************************************)
(* BetterSqlite3Driver: connection lifecycle, attachment registry and      *)
(* table-name qualification.                                               *)
(*                                                                         *)
(* A path string is modelled by its parse: abs says whether it starts      *)
(* with "/", segs are the "/"-separated segments.  The empty string (and   *)
(* an absent argument) is the path with no segments.                       *)
(* An async method is a sequence of steps; the synchronous methods         *)
(* (buildTableName, createQueryRunner) run only while the current async    *)
(* method is suspended at an await, or while none is running.              *)
(***************************************************************************)
EXTENDS Integers, Sequences, FiniteSets, TLC

VARIABLES
    options,             \* this.options (fixed at construction)
    sqlite,              \* this.sqlite: "unset", "override" (options.driver) or "loaded"
    databaseConnection,  \* this.databaseConnection: "undefined", "open", "closed"
    queryRunner,         \* this.queryRunner: 0 = undefined, n = the n-th runner built
    runners,             \* number of BetterSqlite3QueryRunner objects constructed
    returnedRunner,      \* value returned by the last createQueryRunner (0 = none yet)
    attachedDatabases,   \* this.attachedDatabases, in insertion order
    built,               \* the last buildTableName call: its arguments and result
    pc,                  \* position of the running lifecycle method
    attachList,          \* Object.values(this.attachedDatabases) taken by attachDatabases
    trace,               \* operations issued by the last connect (until disconnect is called)
    outcome,             \* last finished lifecycle method and its error
    connected            \* history: connect has succeeded and no disconnect was called since

vars == <<options, sqlite, databaseConnection, queryRunner, runners, returnedRunner,
          attachedDatabases, built, pc, attachList, trace, outcome, connected>>

\* ------------------------------------------------------------------ bounds

MaxRunners == 2

\* ------------------------------------------------------------------- paths

Path(a, s) == [abs |-> a, segs |-> s]

NoDb == Path(FALSE, <<>>)
MemoryDb == Path(FALSE, <<":memory:">>)
AbsMainDb == Path(TRUE, <<"data", "main.db">>)
RelMainDb == Path(FALSE, <<"main.db">>)
BaseDir == Path(TRUE, <<"base">>)
RelRef == Path(FALSE, <<"..", "shared", "ext.db">>)
AbsRef == Path(TRUE, <<"abs", "other.db">>)
\* /abs/./other.db: another string for the file of AbsRef
AliasRef == Path(TRUE, <<"abs", ".", "other.db">>)

Last(s) == s[Len(s)]
Front(s) == SubSeq(s, 1, Len(s) - 1)

\* One segment pushed on a normalized segment list.
RECURSIVE NormalizeSegs(_, _, _)
NormalizeSegs(a, done, rest) ==
    IF rest = <<>> THEN done
    ELSE LET s == Head(rest) IN
         IF s = "." THEN NormalizeSegs(a, done, Tail(rest))
         ELSE IF s = ".." THEN
              IF done # <<>> /\ Last(done) # ".."
                  THEN NormalizeSegs(a, Front(done), Tail(rest))
              ELSE IF a THEN NormalizeSegs(a, done, Tail(rest))
              ELSE NormalizeSegs(a, Append(done, s), Tail(rest))
         ELSE NormalizeSegs(a, Append(done, s), Tail(rest))

\* path.normalize (posix)
normalize(p) ==
    LET n == NormalizeSegs(p.abs, <<>>, p.segs) IN
    IF n = <<>> /\ ~p.abs THEN Path(FALSE, <<".">>) ELSE Path(p.abs, n)

\* path.join(a, b) (posix): a + "/" + b, normalized
join(a, b) ==
    IF a.segs = <<>> /\ ~a.abs THEN normalize(b)
    ELSE normalize(Path(a.abs, a.segs \o b.segs))

\* path.dirname (posix)
dirname(p) ==
    IF Len(p.segs) <= 1
        THEN (IF p.abs THEN Path(TRUE, <<>>) ELSE Path(FALSE, <<".">>))
    ELSE Path(p.abs, Front(p.segs))

isAbsolute(p) == p.abs

\* filepathToName: a hash of the normalized supplied path
filepathToName(p) ==
    <<(IF p.abs THEN "#/" ELSE "#")>> \o normalize(p).segs

NoHandle == <<>>

\* ----------------------------------------------------------------- options

\* ConnectionOptions the driver is constructed with: key, prepareDatabase,
\* enableWAL and driver say whether the option is set.  The file-based absolute
\* primary is taken without a driver override and with every combination of
\* the other three; the in-memory primary (with a baseDirectory) and the
\* relative primary (without one) with all four or none set.
Options(d, b, k, h, w) ==
    [database |-> d, hasBaseDirectory |-> b, baseDirectory |-> BaseDir,
     key |-> k, prepareDatabase |-> h, enableWAL |-> w,
     driver |-> (d # AbsMainDb /\ k)]

OptionSets ==
    { Options(AbsMainDb, FALSE, k, h, w) : k \in BOOLEAN, h \in BOOLEAN, w \in BOOLEAN }
    \cup { Options(MemoryDb, TRUE, f, f, f) : f \in BOOLEAN }
    \cup { Options(RelMainDb, FALSE, f, f, f) : f \in BOOLEAN }

\* Arguments the metadata code passes to buildTableName.  The second string
\* for one file is passed to the driver of the relative primary.
TableNames == {"post", "user"}
DatabaseArgs ==
    {NoDb, options.database, RelRef, AbsRef}
    \cup (IF options.database = RelMainDb THEN {AliasRef} ELSE {})

\* ---------------------------------------------------------------- registry

RECURSIVE IndexOf(_, _, _)
IndexOf(reg, r, i) ==
    IF i > Len(reg) THEN 0
    ELSE IF reg[i].attachFilepathRelative = r THEN i
    ELSE IndexOf(reg, r, i + 1)

HasEntry(r) == IndexOf(attachedDatabases, r, 1) # 0
EntryOf(r) == attachedDatabases[IndexOf(attachedDatabases, r, 1)]

\* this.attachedDatabases?.[path]?.attachHandle
getAttachedDatabaseHandleByRelativePath(r) ==
    IF HasEntry(r) THEN EntryOf(r).attachHandle ELSE NoHandle

\* this.attachedDatabases[database] = entry: a new key is added last, an
\* existing key keeps its place
PutEntry(reg, e) ==
    LET i == IndexOf(reg, e.attachFilepathRelative, 1) IN
    IF i = 0 THEN Append(reg, e) ELSE [reg EXCEPT ![i] = e]

\* path.join throws on an undefined argument
MainDatabasePathThrows ==
    ~isAbsolute(options.database) /\ ~options.hasBaseDirectory

\* Mutation: the primary's path is used without path.dirname.
getMainDatabasePath_NoDirname ==
    IF isAbsolute(options.database)
        THEN options.database
        ELSE join(options.baseDirectory, options.database)

getMainDatabasePath ==
    dirname(IF isAbsolute(options.database)
                THEN options.database
                ELSE join(options.baseDirectory, options.database))

AbsFilepath(database) ==
    IF isAbsolute(database) THEN database
    ELSE join(getMainDatabasePath, database)

\* Mutation: the handle is derived from the absolute path, not the supplied one.
NewEntry_HandleFromAbsolute(database) ==
    [attachFilepathAbsolute |-> AbsFilepath(database),
     attachFilepathRelative |-> database,
     attachHandle |-> filepathToName(AbsFilepath(database))]

NewEntry(database) ==
    [attachFilepathAbsolute |-> AbsFilepath(database),
     attachFilepathRelative |-> database,
     attachHandle |-> filepathToName(database)]

\* Mutation: the comparison with this.options.database is missing.
IsPrimary_Never(database) == FALSE

IsPrimary(database) == database = options.database

Built(database, tableName, res, prefix) ==
    [database |-> database, tableName |-> tableName, result |-> res,
     prefix |-> prefix, name |-> tableName]

NoneBuilt == Built(NoDb, "", "none", NoHandle)

\* ------------------------------------------------------------ control flow

At(op, i, at) == [op |-> op, i |-> i, at |-> at]
Idle == At("idle", 0, "idle")

\* Mutation: the prepareDatabase hook runs before the key pragma.
CreateSteps_HookBeforeKey ==
    (IF options.database # MemoryDb THEN <<"mkdir">> ELSE <<>>)
    \o <<"open">>
    \o (IF options.prepareDatabase THEN <<"hook">> ELSE <<>>)
    \o (IF options.key THEN <<"key">> ELSE <<>>)
    \o <<"fk">>
    \o (IF options.enableWAL THEN <<"wal">> ELSE <<>>)
    \o <<"return">>

\* Mutation: the primary's directory is created for :memory: too.
CreateSteps_AlwaysMkdir ==
    <<"mkdir", "open">>
    \o (IF options.key THEN <<"key">> ELSE <<>>)
    \o (IF options.prepareDatabase THEN <<"hook">> ELSE <<>>)
    \o <<"fk">>
    \o (IF options.enableWAL THEN <<"wal">> ELSE <<>>)
    \o <<"return">>

\* Mutation: foreign_keys is switched on inside the enableWAL branch.
CreateSteps_FkOnlyWithWAL ==
    (IF options.database # MemoryDb THEN <<"mkdir">> ELSE <<>>)
    \o <<"open">>
    \o (IF options.key THEN <<"key">> ELSE <<>>)
    \o (IF options.prepareDatabase THEN <<"hook">> ELSE <<>>)
    \o (IF options.enableWAL THEN <<"fk", "wal">> ELSE <<>>)
    \o <<"return">>

\* Mutation: the key pragma is issued last, after the other statements.
CreateSteps_KeyAfterPragmas ==
    (IF options.database # MemoryDb THEN <<"mkdir">> ELSE <<>>)
    \o <<"open">>
    \o (IF options.prepareDatabase THEN <<"hook">> ELSE <<>>)
    \o <<"fk">>
    \o (IF options.enableWAL THEN <<"wal">> ELSE <<>>)
    \o (IF options.key THEN <<"key">> ELSE <<>>)
    \o <<"return">>

\* The statements of createDatabaseConnection that the options enable, in
\* program order.
CreateSteps ==
    (IF options.database # MemoryDb THEN <<"mkdir">> ELSE <<>>)
    \o <<"open">>
    \o (IF options.key THEN <<"key">> ELSE <<>>)
    \o (IF options.prepareDatabase THEN <<"hook">> ELSE <<>>)
    \o <<"fk">>
    \o (IF options.enableWAL THEN <<"wal">> ELSE <<>>)
    \o <<"return">>

InCreate(i) == At("createDatabaseConnection", i, CreateSteps[i])

\* The caller's code runs only while the lifecycle method awaits.
Suspended == pc.at \in {"idle", "mkdir", "hook", "assign", "afterConnect", "query"}

Event(ev, path, handle) == [ev |-> ev, path |-> path, handle |-> handle]
Ev(ev) == Event(ev, NoDb, NoHandle)

\* handleBefore: this.databaseConnection as a disconnect found it
Outcome(op, error, before) == [op |-> op, error |-> error, handleBefore |-> before]

\* -------------------------------------------------------------------- Init

\* The fields as the constructor finds them, before loadDependencies.
Init ==
    /\ options \in OptionSets
    /\ sqlite = "unset"
    /\ databaseConnection = "undefined"
    /\ queryRunner = 0
    /\ runners = 0
    /\ returnedRunner = 0
    /\ attachedDatabases = <<>>
    /\ built = NoneBuilt
    /\ pc = At("constructor", 0, "loadDependencies")
    /\ attachList = <<>>
    /\ trace = <<>>
    /\ outcome = Outcome("none", "none", "-")
    /\ connected = FALSE

\* ------------------------------------------------------------- constructor

PackageMissing == "DriverPackageNotInstalledError(SQLite, better-sqlite3)"

\* Mutation: the package is loaded first and the override used only as the
\* result of a load that returned nothing.
LoadDependencies_LoadsFirst(loadOk) ==
    /\ pc = At("constructor", 0, "loadDependencies")
    /\ IF loadOk
           THEN /\ sqlite' = "loaded"
                /\ pc' = Idle
                /\ UNCHANGED outcome
           ELSE /\ pc' = At("constructor", 0, "thrown")
                /\ outcome' = Outcome("constructor", PackageMissing, "-")
                /\ UNCHANGED sqlite
    /\ UNCHANGED <<options, databaseConnection, queryRunner, runners, returnedRunner,
                   attachedDatabases, built, attachList, trace, connected>>

\* loadDependencies(): this.options.driver || PlatformTools.load("better-sqlite3");
\* a failed load makes the constructor throw, and there is no Driver.
LoadDependencies(loadOk) ==
    /\ pc = At("constructor", 0, "loadDependencies")
    /\ IF options.driver
           THEN /\ sqlite' = "override"
                /\ pc' = Idle
                /\ UNCHANGED outcome
       ELSE IF loadOk
           THEN /\ sqlite' = "loaded"
                /\ pc' = Idle
                /\ UNCHANGED outcome
       ELSE /\ pc' = At("constructor", 0, "thrown")
            /\ outcome' = Outcome("constructor", PackageMissing, "-")
            /\ UNCHANGED sqlite
    /\ UNCHANGED <<options, databaseConnection, queryRunner, runners, returnedRunner,
                   attachedDatabases, built, attachList, trace, connected>>

\* ---------------------------------------------------------- buildTableName

\* buildTableName that, on creating an entry, also issues the operations
\* `issued` (the body of the two mutations below).
BuildTableNameIssuing(tableName, database, issued) ==
    /\ Suspended
    /\ IF database = NoDb
           THEN /\ built' = Built(database, tableName, "returned", NoHandle)
                /\ UNCHANGED <<attachedDatabases, trace>>
       ELSE IF getAttachedDatabaseHandleByRelativePath(database) # NoHandle
           THEN /\ built' = Built(database, tableName, "returned",
                                  getAttachedDatabaseHandleByRelativePath(database))
                /\ UNCHANGED <<attachedDatabases, trace>>
       ELSE IF IsPrimary(database)
           THEN /\ built' = Built(database, tableName, "returned", NoHandle)
                /\ UNCHANGED <<attachedDatabases, trace>>
       ELSE IF ~isAbsolute(database) /\ MainDatabasePathThrows
           THEN /\ built' = Built(database, tableName, "threw", NoHandle)
                /\ UNCHANGED <<attachedDatabases, trace>>
       ELSE /\ attachedDatabases' = PutEntry(attachedDatabases, NewEntry(database))
            /\ built' = Built(database, tableName, "returned", filepathToName(database))
            /\ trace' = trace \o issued
    /\ UNCHANGED <<options, sqlite, databaseConnection, queryRunner, runners,
                   returnedRunner, pc, attachList, outcome, connected>>

\* Mutation: the new entry's directory is created as soon as it is resolved.
BuildTableName_CreatesDirectory(tableName, database) ==
    BuildTableNameIssuing(tableName, database,
        <<Event("mkdir", dirname(AbsFilepath(database)), NoHandle)>>)

\* Mutation: on an open connection the new entry is attached at once.
BuildTableName_AttachesAtOnce(tableName, database) ==
    BuildTableNameIssuing(tableName, database,
        IF databaseConnection = "open"
            THEN <<Event("attach", AbsFilepath(database), filepathToName(database))>>
            ELSE <<>>)

BuildTableName(tableName, database) ==
    /\ Suspended
    /\ IF database = NoDb
           THEN /\ built' = Built(database, tableName, "returned", NoHandle)
                /\ UNCHANGED attachedDatabases
       ELSE IF getAttachedDatabaseHandleByRelativePath(database) # NoHandle
           THEN /\ built' = Built(database, tableName, "returned",
                                  getAttachedDatabaseHandleByRelativePath(database))
                /\ UNCHANGED attachedDatabases
       ELSE IF IsPrimary(database)
           THEN /\ built' = Built(database, tableName, "returned", NoHandle)
                /\ UNCHANGED attachedDatabases
       ELSE IF ~isAbsolute(database) /\ MainDatabasePathThrows
           THEN /\ built' = Built(database, tableName, "threw", NoHandle)
                /\ UNCHANGED attachedDatabases
       ELSE /\ attachedDatabases' = PutEntry(attachedDatabases, NewEntry(database))
            /\ built' = Built(database, tableName, "returned", filepathToName(database))
    /\ UNCHANGED <<options, sqlite, databaseConnection, queryRunner, runners, returnedRunner,
                   pc, attachList, trace, outcome, connected>>

\* ------------------------------------------------------- createQueryRunner

\* Mutation: a runner is constructed on every call.
CreateQueryRunner_AlwaysNew(mode) ==
    /\ Suspended
    /\ runners < MaxRunners
    /\ runners' = runners + 1
    /\ queryRunner' = runners + 1
    /\ returnedRunner' = runners + 1
    /\ UNCHANGED <<options, sqlite, databaseConnection, attachedDatabases, built, pc,
                   attachList, trace, outcome, connected>>

CreateQueryRunner(mode) ==
    /\ Suspended
    /\ IF queryRunner = 0
           THEN /\ runners < MaxRunners
                /\ runners' = runners + 1
                /\ queryRunner' = runners + 1
                /\ returnedRunner' = runners + 1
           ELSE /\ returnedRunner' = queryRunner
                /\ UNCHANGED <<queryRunner, runners>>
    /\ UNCHANGED <<options, sqlite, databaseConnection, attachedDatabases, built, pc,
                   attachList, trace, outcome, connected>>

\* -------------------------------------------------------------- disconnect

\* Mutation: disconnect also empties the registry.
Disconnect_ClearsRegistry(closeThrows) ==
    /\ pc = Idle
    /\ queryRunner' = 0
    /\ connected' = FALSE
    /\ attachedDatabases' = <<>>
    /\ IF databaseConnection = "undefined"
           THEN /\ outcome' = Outcome("disconnect", "TypeError", databaseConnection)
                /\ UNCHANGED databaseConnection
       ELSE IF databaseConnection = "open" /\ closeThrows
           THEN /\ outcome' = Outcome("disconnect", "CloseFailed", databaseConnection)
                /\ UNCHANGED databaseConnection
       ELSE /\ outcome' = Outcome("disconnect", "none", databaseConnection)
            /\ databaseConnection' = "closed"
    /\ trace' = <<>>
    /\ attachList' = <<>>
    /\ UNCHANGED <<options, sqlite, runners, returnedRunner, built, pc>>

\* Mutation: the handle is closed first, the runner dropped after it; a
\* throwing close leaves the runner cached.
Disconnect_CloseFirst(closeThrows) ==
    /\ pc = Idle
    /\ connected' = FALSE
    /\ IF databaseConnection = "undefined"
           THEN /\ outcome' = Outcome("disconnect", "TypeError", databaseConnection)
                /\ UNCHANGED <<databaseConnection, queryRunner>>
       ELSE IF databaseConnection = "open" /\ closeThrows
           THEN /\ outcome' = Outcome("disconnect", "CloseFailed", databaseConnection)
                /\ UNCHANGED <<databaseConnection, queryRunner>>
       ELSE /\ outcome' = Outcome("disconnect", "none", databaseConnection)
            /\ databaseConnection' = "closed"
            /\ queryRunner' = 0
    /\ trace' = <<>>
    /\ attachList' = <<>>
    /\ UNCHANGED <<options, sqlite, runners, returnedRunner, attachedDatabases, built, pc>>

\* close() of an open handle closes it or throws (the database is busy);
\* close() of a closed handle does nothing.
Disconnect(closeThrows) ==
    /\ pc = Idle
    /\ queryRunner' = 0
    /\ connected' = FALSE
    /\ IF databaseConnection = "undefined"
           THEN /\ outcome' = Outcome("disconnect", "TypeError", databaseConnection)
                /\ UNCHANGED databaseConnection
       ELSE IF databaseConnection = "open" /\ closeThrows
           THEN /\ outcome' = Outcome("disconnect", "CloseFailed", databaseConnection)
                /\ UNCHANGED databaseConnection
       ELSE /\ outcome' = Outcome("disconnect", "none", databaseConnection)
            /\ databaseConnection' = "closed"
    /\ trace' = <<>>
    /\ attachList' = <<>>
    /\ UNCHANGED <<options, sqlite, runners, returnedRunner, attachedDatabases, built, pc>>

\* ----------------------------------------------------------------- connect

Fail(op, error) ==
    /\ pc' = Idle
    /\ outcome' = Outcome(op, error, "-")

\* connect(): calls createDatabaseConnection, which runs to its first await.
Connect ==
    /\ pc = Idle
    /\ pc' = InCreate(1)
    /\ trace' = <<>>
    /\ attachList' = <<>>
    /\ UNCHANGED <<options, sqlite, databaseConnection, queryRunner, runners, returnedRunner,
                   attachedDatabases, built, outcome, connected>>

\* Mutation: a failing statement on the new handle closes the handle before
\* the error is rethrown.
CreateStep_ClosesOnFailure(step, event, error, ok) ==
    /\ pc.op = "createDatabaseConnection"
    /\ pc.at = step
    /\ IF ok
           THEN /\ trace' = Append(trace, event)
                /\ pc' = InCreate(pc.i + 1)
                /\ UNCHANGED outcome
           ELSE /\ Fail("connect", error)
                /\ trace' = IF step \in {"mkdir", "open"} THEN trace
                             ELSE Append(trace, Ev("close"))
    /\ UNCHANGED <<options, sqlite, databaseConnection, queryRunner, runners,
                   returnedRunner, attachedDatabases, built, attachList, connected>>

CreateStep(step, event, error, ok) ==
    /\ pc.op = "createDatabaseConnection"
    /\ pc.at = step
    /\ IF ok
           THEN /\ trace' = Append(trace, event)
                /\ pc' = InCreate(pc.i + 1)
                /\ UNCHANGED outcome
           ELSE /\ Fail("connect", error)
                /\ UNCHANGED trace
    /\ UNCHANGED <<options, sqlite, databaseConnection, queryRunner, runners, returnedRunner,
                   attachedDatabases, built, attachList, connected>>

\* await this.createDatabaseDirectory(path.dirname(this.options.database))
CreatePrimaryDirectory(ok) ==
    /\ pc.op = "createDatabaseConnection"
    /\ CreateStep("mkdir", Event("mkdir", dirname(options.database), NoHandle),
                  "DirectoryCreationFailed", ok)

\* this.sqlite(database, {...})
OpenDatabase(ok) ==
    CreateStep("open", Event("open", options.database, NoHandle), "ConnectFailed", ok)

\* databaseConnection.exec(`PRAGMA key = ...`)
ExecKey(ok) == CreateStep("key", Ev("key"), "KeySetupFailed", ok)

\* await prepareDatabase(databaseConnection)
PrepareDatabase(ok) == CreateStep("hook", Ev("hook"), "PrepareFailed", ok)

\* databaseConnection.exec(`PRAGMA foreign_keys = ON`)
ExecForeignKeys(ok) == CreateStep("fk", Ev("fk"), "PragmaFailed", ok)

\* databaseConnection.exec(`PRAGMA journal_mode = WAL`)
ExecWAL(ok) == CreateStep("wal", Ev("wal"), "PragmaFailed", ok)

\* return databaseConnection
ReturnConnection ==
    /\ pc.op = "createDatabaseConnection"
    /\ pc.at = "return"
    /\ pc' = At("connect", 0, "assign")
    /\ trace' = Append(trace, Ev("return"))
    /\ UNCHANGED <<options, sqlite, databaseConnection, queryRunner, runners, returnedRunner,
                   attachedDatabases, built, attachList, outcome, connected>>

\* this.databaseConnection = await this.createDatabaseConnection()
AssignConnection ==
    /\ pc = At("connect", 0, "assign")
    /\ databaseConnection' = "open"
    /\ connected' = TRUE
    /\ outcome' = Outcome("connect", "none", "-")
    /\ pc' = At("initialize", 0, "afterConnect")
    /\ UNCHANGED <<options, sqlite, queryRunner, runners, returnedRunner, attachedDatabases,
                   built, attachList, trace>>

\* ------------------------------------------------------------ afterConnect

InAttach(i, at) == At("attachDatabases", i, at)

\* `ATTACH "${attachFilepathAbsolute}" AS "${attachHandle}"`
AttachOf(entry) == Event("attach", entry.attachFilepathAbsolute, entry.attachHandle)

\* afterConnect() -> attachDatabases(): the loop iterates
\* Object.values(this.attachedDatabases) as it is at the call.
AfterConnect ==
    /\ pc = At("initialize", 0, "afterConnect")
    /\ attachList' = attachedDatabases
    /\ IF attachedDatabases = <<>>
           THEN /\ pc' = Idle
                /\ outcome' = Outcome("afterConnect", "none", "-")
           ELSE /\ pc' = InAttach(1, "mkdir")
                /\ UNCHANGED outcome
    /\ UNCHANGED <<options, sqlite, databaseConnection, queryRunner, runners, returnedRunner,
                   attachedDatabases, built, trace, connected>>

\* Mutation: createDatabaseDirectory is not awaited, the ATTACH is issued
\* while the directory creation is still running.
CreateAttachDirectory_NotAwaited(ok) ==
    /\ pc.op = "attachDatabases"
    /\ pc.at = "mkdir"
    /\ pc' = InAttach(pc.i, "query")
    /\ UNCHANGED <<options, sqlite, databaseConnection, queryRunner, runners,
                   returnedRunner, attachedDatabases, built, attachList, trace,
                   outcome, connected>>

\* await this.createDatabaseDirectory(path.dirname(attachFilepathAbsolute))
CreateAttachDirectory(ok) ==
    /\ pc.op = "attachDatabases"
    /\ pc.at = "mkdir"
    /\ IF ok
           THEN /\ trace' = Append(trace,
                        Event("mkdir", dirname(attachList[pc.i].attachFilepathAbsolute),
                              NoHandle))
                /\ pc' = InAttach(pc.i, "query")
                /\ UNCHANGED outcome
           ELSE /\ Fail("afterConnect", "DirectoryCreationFailed")
                /\ UNCHANGED trace
    /\ UNCHANGED <<options, sqlite, databaseConnection, queryRunner, runners, returnedRunner,
                   attachedDatabases, built, attachList, connected>>

\* Mutation: the loop ends after the first ATTACH.
AttachDatabase_StopAfterFirst(ok) ==
    /\ pc.op = "attachDatabases"
    /\ pc.at = "query"
    /\ IF ok
           THEN /\ trace' = Append(trace, AttachOf(attachList[pc.i]))
                /\ pc' = Idle
                /\ outcome' = Outcome("afterConnect", "none", "-")
           ELSE /\ Fail("afterConnect", "AttachFailed")
                /\ UNCHANGED trace
    /\ UNCHANGED <<options, sqlite, databaseConnection, queryRunner, runners, returnedRunner,
                   attachedDatabases, built, attachList, connected>>

\* Mutation: a failed ATTACH is skipped and the loop goes on; the error is
\* raised only for the last entry.
AttachDatabase_ContinueOnFailure(ok) ==
    /\ pc.op = "attachDatabases"
    /\ pc.at = "query"
    /\ IF pc.i < Len(attachList)
           THEN /\ pc' = InAttach(pc.i + 1, "mkdir")
                /\ trace' = IF ok THEN Append(trace, AttachOf(attachList[pc.i])) ELSE trace
                /\ UNCHANGED outcome
       ELSE IF ok
           THEN /\ trace' = Append(trace, AttachOf(attachList[pc.i]))
                /\ pc' = Idle
                /\ outcome' = Outcome("afterConnect", "none", "-")
       ELSE /\ Fail("afterConnect", "AttachFailed")
            /\ UNCHANGED trace
    /\ UNCHANGED <<options, sqlite, databaseConnection, queryRunner, runners, returnedRunner,
                   attachedDatabases, built, attachList, connected>>

\* await this.connection.query(`ATTACH "<path>" AS "<handle>"`)
AttachDatabase(ok) ==
    /\ pc.op = "attachDatabases"
    /\ pc.at = "query"
    /\ IF ok
           THEN /\ trace' = Append(trace, AttachOf(attachList[pc.i]))
                /\ IF pc.i < Len(attachList)
                       THEN /\ pc' = InAttach(pc.i + 1, "mkdir")
                            /\ UNCHANGED outcome
                       ELSE /\ pc' = Idle
                            /\ outcome' = Outcome("afterConnect", "none", "-")
           ELSE /\ Fail("afterConnect", "AttachFailed")
                /\ UNCHANGED trace
    /\ UNCHANGED <<options, sqlite, databaseConnection, queryRunner, runners, returnedRunner,
                   attachedDatabases, built, attachList, connected>>

\* -------------------------------------------------------------------- Next

Next ==
    \/ \E loadOk \in BOOLEAN : LoadDependencies(loadOk)
    \/ \E t \in TableNames, d \in DatabaseArgs : BuildTableName(t, d)
    \/ \E mode \in {"master", "slave"} : CreateQueryRunner(mode)
    \/ \E closeThrows \in BOOLEAN : Disconnect(closeThrows)
    \/ Connect
    \/ \E ok \in BOOLEAN : CreatePrimaryDirectory(ok)
    \/ \E ok \in BOOLEAN : OpenDatabase(ok)
    \/ \E ok \in BOOLEAN : ExecKey(ok)
    \/ \E ok \in BOOLEAN : PrepareDatabase(ok)
    \/ \E ok \in BOOLEAN : ExecForeignKeys(ok)
    \/ \E ok \in BOOLEAN : ExecWAL(ok)
    \/ ReturnConnection
    \/ AssignConnection
    \/ AfterConnect
    \/ \E ok \in BOOLEAN : CreateAttachDirectory(ok)
    \/ \E ok \in BOOLEAN : AttachDatabase(ok)

Spec == Init /\ [][Next]_vars

TypeOK ==
    /\ options \in OptionSets
    /\ sqlite \in {"unset", "override", "loaded"}
    /\ databaseConnection \in {"undefined", "open", "closed"}
    /\ queryRunner \in 0..runners
    /\ returnedRunner \in 0..runners
    /\ connected \in BOOLEAN

\* ================================================================== claims

IsAttach(e) == e.ev = "attach"
AttachEvents == SelectSeq(trace, IsAttach)
TraceHas(ev) == \E i \in 1..Len(trace) : trace[i].ev = ev

\* The (path, handle) pairs the first k entries of the iterated list bind.
Attached(k) == [i \in 1..k |-> AttachOf(attachList[i])]

\* Place of a recorded operation in the documented connect order
\* (0: a directory creation, which the order does not mention).
Rank(e) ==
    CASE e.ev = "open" -> 1
      [] e.ev = "key" -> 2
      [] e.ev = "hook" -> 3
      [] e.ev = "fk" -> 4
      [] e.ev = "wal" -> 5
      [] e.ev = "return" -> 6
      [] e.ev = "attach" -> 7
      [] OTHER -> 0

\* C1: in the trace of one connect, the steps appear in the order handle
\* acquired, key, prepareDatabase hook, foreign_keys, journal_mode, return
\* of createDatabaseConnection, attachments; each of the first six occurs at
\* most once, every step follows the acquisition of the handle, and every
\* ATTACH follows the return of createDatabaseConnection.
C1_ConnectOrder ==
    /\ \A i, j \in 1..Len(trace) :
           i < j /\ Rank(trace[i]) # 0 /\ Rank(trace[j]) # 0
               => \/ Rank(trace[i]) < Rank(trace[j])
                  \/ (IsAttach(trace[i]) /\ IsAttach(trace[j]))
    /\ \A j \in 1..Len(trace) :
           /\ Rank(trace[j]) > 1 => \E i \in 1..(j - 1) : trace[i].ev = "open"
           /\ IsAttach(trace[j]) => \E i \in 1..(j - 1) : trace[i].ev = "return"

C1_Witness ==
    /\ TraceHas("key") /\ TraceHas("hook") /\ TraceHas("fk") /\ TraceHas("wal")
    /\ Len(AttachEvents) = 2
    /\ outcome = Outcome("afterConnect", "none", "-")

\* C2: once a reference has a registry entry, every step keeps that entry as
\* it is and keeps the registry free of a second entry for it, and every
\* buildTableName call for it returns the entry's handle as prefix.
C2_Idempotent ==
    [][\A r \in DatabaseArgs :
          /\ HasEntry(r) =>
                /\ HasEntry(r)'
                /\ EntryOf(r)' = EntryOf(r)
          /\ HasEntry(r)' =>
                /\ Cardinality({i \in 1..Len(attachedDatabases') :
                       attachedDatabases'[i].attachFilepathRelative = r}) = 1
                /\ (built'.database = r /\ built'.result = "returned")
                       => built'.prefix = EntryOf(r)'.attachHandle]_vars

\* The first of two entries was resolved again after the second was created,
\* after a connect and a disconnect.
C2_Witness ==
    /\ Len(attachedDatabases) = 2
    /\ built.database = attachedDatabases[1].attachFilepathRelative
    /\ built.database = RelRef
    /\ built.result = "returned"
    /\ built.prefix = attachedDatabases[1].attachHandle
    /\ databaseConnection = "closed"

\* C3: a disconnect that finds no open handle (never connected, or already
\* closed by a previous disconnect) fails with InvalidConnection.
C3_DisconnectInvalidConnection ==
    (outcome.op = "disconnect" /\ outcome.handleBefore \in {"undefined", "closed"})
        => outcome.error = "InvalidConnection"

\* C4 as stated: at most one Query Runner is ever constructed, and every
\* createQueryRunner call returns it.
C4_AtMostOneRunnerEver ==
    /\ runners <= 1
    /\ returnedRunner \in {0, 1}

\* C4 amended: a Query Runner is constructed only when none is cached; while
\* one is cached every createQueryRunner call returns it; only disconnect
\* drops the cached runner.
C4_OneRunnerUntilDisconnect ==
    [][/\ runners' \in {runners, runners + 1}
       /\ runners' = runners + 1 =>
              /\ queryRunner = 0
              /\ queryRunner' = runners'
              /\ returnedRunner' = runners'
       /\ (queryRunner # 0 /\ queryRunner' # 0) =>
              /\ queryRunner' = queryRunner
              /\ returnedRunner' = queryRunner
       /\ (queryRunner # 0 /\ queryRunner' = 0) => outcome'.op = "disconnect"]_vars

C4_Witness ==
    /\ runners = 2
    /\ queryRunner = 2
    /\ returnedRunner = 2
    /\ outcome.op = "afterConnect"

\* C5: the Driver holds a connection handle exactly when connect has
\* succeeded and disconnect has not been called since.
C5_HandleIffConnected ==
    (databaseConnection # "undefined") <=> connected

\* C6: the primary database's own reference never has a registry entry, is
\* never in the list attachDatabases iterates, and buildTableName returns
\* the identifier unqualified for it.
C6_PrimaryNeverAttached ==
    /\ ~HasEntry(options.database)
    /\ \A i \in 1..Len(attachList) :
           attachList[i].attachFilepathRelative # options.database
    /\ \A i \in 1..Len(AttachEvents) :
           \E j \in 1..Len(attachList) :
               /\ AttachEvents[i] = AttachOf(attachList[j])
               /\ attachList[j].attachFilepathRelative # options.database
    /\ (built.database = options.database /\ built.result = "returned")
           => (built.prefix = NoHandle /\ built.name = built.tableName)

C6_Witness ==
    /\ built.database = options.database
    /\ built.result = "returned"
    /\ Len(AttachEvents) = 2
    /\ outcome = Outcome("afterConnect", "none", "-")

\* C7: the registry holds one entry per reference, every table name built
\* for a reference carries that entry's handle, and afterConnect issues one
\* ATTACH per entry of the registry as it was at the call, in order, and no
\* other: all of them once it has succeeded.
C7_OneAttachPerEntry ==
    /\ \A i, j \in 1..Len(attachedDatabases) :
           i # j => attachedDatabases[i].attachFilepathRelative
                        # attachedDatabases[j].attachFilepathRelative
    /\ (built.result = "returned" /\ HasEntry(built.database))
           => built.prefix = EntryOf(built.database).attachHandle
    /\ Len(AttachEvents) <= Len(attachList)
    /\ AttachEvents = Attached(Len(AttachEvents))
    /\ (pc = Idle /\ outcome = Outcome("afterConnect", "none", "-"))
           => Len(AttachEvents) = Len(attachList)
    /\ pc.op = "attachDatabases"
           => Len(AttachEvents) = pc.i - 1

C7_Witness ==
    /\ pc = Idle
    /\ outcome = Outcome("afterConnect", "none", "-")
    /\ Len(attachedDatabases) = 1
    /\ Len(AttachEvents) = 1
    /\ built.database = attachedDatabases[1].attachFilepathRelative
    /\ built.tableName = "user"
    /\ built.prefix = AttachEvents[1].handle

\* C8 as stated: with primary /data/main.db the entry of ../shared/ext.db
\* stores /data/shared/ext.db.
C8_ResolvedUnderData ==
    (options.database = AbsMainDb /\ HasEntry(RelRef))
        => EntryOf(RelRef).attachFilepathAbsolute
               = Path(TRUE, <<"data", "shared", "ext.db">>)

\* C8 amended: with primary /data/main.db the entry of ../shared/ext.db
\* stores /shared/ext.db, the reference joined to the primary's directory
\* /data and normalized.
C8_ResolvedAgainstPrimaryDirectory ==
    (options.database = AbsMainDb /\ HasEntry(RelRef))
        => /\ EntryOf(RelRef).attachFilepathAbsolute
                  = Path(TRUE, <<"shared", "ext.db">>)
           /\ EntryOf(RelRef).attachFilepathRelative = RelRef

C8_Witness ==
    /\ options.database = AbsMainDb
    /\ HasEntry(RelRef)
    /\ built.database = RelRef

\* Operations recorded after createDatabaseConnection returned.
RECURSIVE AfterReturn(_)
AfterReturn(t) ==
    IF t = <<>> THEN <<>>
    ELSE IF Head(t).ev = "return" THEN Tail(t)
    ELSE AfterReturn(Tail(t))

MkdirOf(entry) == Event("mkdir", dirname(entry.attachFilepathAbsolute), NoHandle)

\* mkdir, ATTACH of the first k entries, then the mkdir of the next if m.
AttachPrefix(k, m) ==
    [n \in 1..(2 * k + (IF m THEN 1 ELSE 0)) |->
        IF n % 2 = 1 THEN MkdirOf(attachList[(n + 1) \div 2])
        ELSE AttachOf(attachList[n \div 2])]

\* C9: when afterConnect has failed, the operations it issued are the
\* directory creations and ATTACHes of the entries before the failing one
\* (plus the failing entry's directory creation when its ATTACH failed) and
\* nothing for a later entry, the error is the caller's outcome, and the
\* connection handle is still open.
C9_AttachFailureAborts ==
    (pc = Idle /\ outcome.op = "afterConnect" /\ outcome.error # "none") =>
        /\ outcome.error \in {"AttachFailed", "DirectoryCreationFailed"}
        /\ databaseConnection = "open"
        /\ Len(AttachEvents) < Len(attachList)
        /\ AfterReturn(trace) =
               AttachPrefix(Len(AttachEvents), outcome.error = "AttachFailed")

\* The second of two attachments failed: the first stays attached.
C9_Witness ==
    /\ pc = Idle
    /\ outcome = Outcome("afterConnect", "AttachFailed", "-")
    /\ Len(attachList) = 2
    /\ Len(AttachEvents) = 1
    /\ databaseConnection = "open"

\* C10: with :memory: as primary, no directory is created before the handle
\* is opened, and every ATTACH is directly preceded by the creation of the
\* containing directory of the attached file.
C10_MemoryPrimary ==
    options.database = MemoryDb =>
        /\ \A i \in 1..Len(trace) :
               trace[i].ev = "mkdir" => \E j \in 1..(i - 1) : trace[j].ev = "return"
        /\ \A i \in 1..Len(trace) :
               IsAttach(trace[i]) =>
                   /\ i > 1
                   /\ trace[i - 1] = Event("mkdir", dirname(trace[i].path), NoHandle)

C10_Witness ==
    /\ options.database = MemoryDb
    /\ Len(AttachEvents) = 2
    /\ outcome = Outcome("afterConnect", "none", "-")

\* A step of buildTableName: it records its call or adds a registry entry.
BuildStep == built' # built \/ attachedDatabases' # attachedDatabases

\* C11: a buildTableName call changes nothing but the registry (and its own
\* result): no operation is issued on the filesystem or the connection, the
\* handle, the cached Query Runner and the running lifecycle method are left
\* as they are, whatever the lifecycle state.
C11_BuildTableNameFrame ==
    [][BuildStep =>
          /\ trace' = trace
          /\ databaseConnection' = databaseConnection
          /\ queryRunner' = queryRunner
          /\ runners' = runners
          /\ pc' = pc
          /\ attachList' = attachList
          /\ outcome' = outcome
          /\ sqlite' = sqlite]_vars

\* An entry was created while the connection was open and a runner cached.
C11_Witness ==
    /\ pc = Idle
    /\ outcome = Outcome("afterConnect", "none", "-")
    /\ databaseConnection = "open"
    /\ queryRunner # 0
    /\ Len(attachedDatabases) > Len(attachList)
    /\ built.database = Last(attachedDatabases).attachFilepathRelative

Thrown == pc = At("constructor", 0, "thrown")

\* C13: the constructor throws the driver-package-missing error, naming
\* SQLite and better-sqlite3, exactly when no override is given and the load
\* fails, and then nothing has been done on the Driver; with an override the
\* override is the binding and nothing is loaded; no connection is opened
\* without a binding.
C13_PackageMissing ==
    /\ Thrown =>
           /\ ~options.driver
           /\ sqlite = "unset"
           /\ outcome = Outcome("constructor", PackageMissing, "-")
           /\ trace = <<>>
           /\ databaseConnection = "undefined"
           /\ attachedDatabases = <<>>
           /\ built = NoneBuilt
           /\ runners = 0
    /\ outcome.op = "constructor" => Thrown
    /\ (options.driver /\ pc.op # "constructor") => sqlite = "override"
    /\ (~options.driver /\ pc.op # "constructor") => sqlite = "loaded"
    /\ (pc.op = "createDatabaseConnection" \/ trace # <<>>) => sqlite # "unset"

C13_Witness ==
    /\ Thrown
    /\ outcome.error = PackageMissing

RECURSIVE FirstIndex(_, _, _)
FirstIndex(t, ev, i) ==
    IF i > Len(t) THEN 0
    ELSE IF t[i].ev = ev THEN i
    ELSE FirstIndex(t, ev, i + 1)

\* C14: a handle that createDatabaseConnection has returned has had
\* PRAGMA foreign_keys = ON issued on it, whatever the options, and when a
\* prepareDatabase hook is set the pragma was issued after the hook.
C14_ForeignKeysAlways ==
    /\ TraceHas("return") =>
           /\ TraceHas("fk")
           /\ FirstIndex(trace, "fk", 1) < FirstIndex(trace, "return", 1)
    /\ pc.op \in {"connect", "initialize", "attachDatabases"} => TraceHas("return")
    /\ TraceHas("fk") =>
           /\ options.prepareDatabase <=> TraceHas("hook")
           /\ FirstIndex(trace, "hook", 1) < FirstIndex(trace, "fk", 1)

C14_Witness ==
    /\ options.prepareDatabase
    /\ ~options.key
    /\ ~options.enableWAL
    /\ databaseConnection = "open"
    /\ outcome = Outcome("connect", "none", "-")
    /\ TraceHas("fk")

\* C15: when the key pragma is rejected, connect fails with that error: the
\* hook has not run, no foreign_keys or journal_mode pragma has been issued,
\* the Driver's handle is left as it was and nothing is attached.
C15_KeyRejected ==
    [][(pc.at = "key" /\ pc' = Idle) =>
          /\ outcome' = Outcome("connect", "KeySetupFailed", "-")
          /\ databaseConnection' = databaseConnection
          /\ connected' = connected
          /\ trace' = trace
          /\ Last(trace').ev = "open"
          /\ \A i \in 1..Len(trace') :
                 trace'[i].ev \notin {"hook", "fk", "wal", "return", "attach"}]_vars

C15_Witness ==
    /\ pc = Idle
    /\ outcome = Outcome("connect", "KeySetupFailed", "-")
    /\ options.prepareDatabase
    /\ databaseConnection = "undefined"
    /\ Last(trace).ev = "open"

\* C16: the operations of attachDatabases are, in the order of the iterated
\* list, each entry's directory creation followed by its ATTACH; an
\* operation of an entry is pending only when both operations of every
\* earlier entry, and for an ATTACH the entry's own directory creation, are
\* done.
C16_AttachSequential ==
    LET done == AfterReturn(trace)
        k == Len(AttachEvents)
    IN  /\ Len(done) \in {2 * k, 2 * k + 1}
        /\ k <= Len(attachList)
        /\ Len(done) = 2 * k + 1 => k < Len(attachList)
        /\ done = AttachPrefix(k, Len(done) = 2 * k + 1)
        /\ (pc.op = "attachDatabases" /\ pc.at = "mkdir") => Len(done) = 2 * (pc.i - 1)
        /\ (pc.op = "attachDatabases" /\ pc.at = "query") => Len(done) = 2 * pc.i - 1

\* The second entry's ATTACH is pending.
C16_Witness ==
    /\ pc = InAttach(2, "query")
    /\ Len(AfterReturn(trace)) = 3
    /\ AfterReturn(trace)[3] = MkdirOf(attachList[2])

\* C17: every step keeps each registry entry, at its place and with its
\* absolute path, supplied path and handle; the registry only grows.
C17_RegistryOnlyGrows ==
    [][/\ Len(attachedDatabases') >= Len(attachedDatabases)
       /\ \A i \in 1..Len(attachedDatabases) :
              attachedDatabases'[i] = attachedDatabases[i]]_vars

\* Two entries, made before a connect that attached both, after a disconnect
\* and further buildTableName calls.
C17_Witness ==
    /\ Len(attachedDatabases) = 2
    /\ attachList = attachedDatabases
    /\ Len(AttachEvents) = 2
    /\ built.database = attachedDatabases[1].attachFilepathRelative
    /\ returnedRunner = 2
    /\ outcome = Outcome("afterConnect", "none", "-")

\* C18: every disconnect, also one whose close fails or that finds no
\* handle, leaves no cached Query Runner; a createQueryRunner call that
\* finds none cached constructs a new runner, other than the one handed out
\* before.
C18_DisconnectDropsRunner ==
    [][/\ (outcome'.op = "disconnect" /\ outcome' # outcome) => queryRunner' = 0
       /\ (queryRunner = 0 /\ queryRunner' # 0) =>
              /\ runners' = runners + 1
              /\ queryRunner' = runners'
              /\ returnedRunner' = queryRunner'
              /\ returnedRunner' # returnedRunner]_vars

\* A second runner was constructed after a disconnect whose close failed.
C18_Witness ==
    /\ outcome = Outcome("disconnect", "CloseFailed", "open")
    /\ queryRunner = 2
    /\ returnedRunner = 2

\* C19: an ATTACH is issued only by a step of attachDatabases, for the
\* entry the loop is at; attachDatabases iterates the registry as it is at
\* the afterConnect call; an entry created later has a handle-qualified
\* name and no ATTACH on the current connection.
C19_AttachOnlyByAfterConnect ==
    [][/\ (AttachEvents' # AttachEvents /\ trace' # <<>>) =>
              /\ pc.op = "attachDatabases"
              /\ pc.at = "query"
              /\ AttachEvents' = Append(AttachEvents, AttachOf(attachList[pc.i]))
       /\ (pc.at = "afterConnect" /\ pc' # pc) => attachList' = attachedDatabases
       /\ \A i \in 1..Len(attachedDatabases') :
              i > Len(attachList') =>
                  \A j \in 1..Len(trace') : trace'[j] # AttachOf(attachedDatabases'[i])
       /\ LET i == IndexOf(attachedDatabases', built'.database, 1)
          IN  (BuildStep /\ i # 0) =>
                  built'.prefix = attachedDatabases'[i].attachHandle]_vars

\* An entry created after afterConnect finished, on the open connection.
C19_Witness ==
    /\ pc = Idle
    /\ outcome = Outcome("afterConnect", "none", "-")
    /\ databaseConnection = "open"
    /\ Len(attachList) = 1
    /\ Len(attachedDatabases) = 2
    /\ Len(AttachEvents) = 1
    /\ built.database = attachedDatabases[2].attachFilepathRelative
    /\ built.prefix = attachedDatabases[2].attachHandle

\* C20: when the key pragma, the hook, the foreign_keys or the journal_mode
\* pragma fails, createDatabaseConnection ends there with that error:
\* nothing more is issued (no close of the opened handle, no second try of a
\* step) and the Driver's handle is left as it was.
C20_FailureLeavesHandleOpen ==
    [][(pc.op = "createDatabaseConnection"
            /\ pc.at \in {"key", "hook", "fk", "wal"} /\ pc' = Idle) =>
          /\ outcome'.op = "connect"
          /\ outcome'.error =
                 (CASE pc.at = "key" -> "KeySetupFailed"
                    [] pc.at = "hook" -> "PrepareFailed"
                    [] OTHER -> "PragmaFailed")
          /\ trace' = trace
          /\ TraceHas("open")
          /\ ~TraceHas("close")
          /\ \A i, j \in 1..Len(trace) : i # j => trace[i].ev # trace[j].ev
          /\ databaseConnection' = databaseConnection
          /\ connected' = connected]_vars

C20_Witness ==
    /\ pc = Idle
    /\ outcome = Outcome("connect", "PragmaFailed", "-")
    /\ TraceHas("hook")
    /\ TraceHas("fk")
    /\ ~TraceHas("return")
    /\ databaseConnection = "undefined"

====
